---- MODULE Spec2Model ----
(***************************************************************************)
(* Model of the evaluation pipeline of programming-skills:                 *)
(*   ci/orchestrate_evaluations.sh  (the matrix orchestrator)              *)
(*   ci/run_evaluation.sh           (one (provider, model) unit)           *)
(*   ci/consolidate_results.sh      (the aggregator of exit codes)         *)
(* together with the result-directory naming and the decision policy of    *)
(* the evaluator.                                                          *)
(***************************************************************************)
EXTENDS Integers, Sequences, FiniteSets, TLC

(***************************************************************************)
(* Bounds                                                                  *)
(***************************************************************************)
MaxUnits == 3        \* (provider, model) pairs config.yaml can enable
MaxRuns == 2         \* invocations of orchestrate_evaluations.sh
MaxNameLen == 2      \* length of a model name in the naming model
MaxRespLen == 3      \* characters of a model response in the verifier model
MaxTests == 2        \* test cases a unit executes in the executor model
MaxSkills == 3       \* skill directories under the root in the registry model
MaxDataRuns == 2     \* skill runs in benchmarks.json in the dashboard model
MaxStamp == 2        \* distinct timestamps of the runs in benchmarks.json

(***************************************************************************)
(* Program constants                                                       *)
(***************************************************************************)
DefaultThreshold == 50
KilledStatus == 128 + 9  \* wait status of a process ended by SIGKILL
MaxRetries == 2          \* retries of one model invocation

VARIABLES
    \* ---- orchestrate_evaluations.sh ----
    pc,              \* position of the orchestrator
    run,             \* number of invocations so far
    PR_NUMBER,       \* TRUE iff $1 is non-empty
    GITHUB_TOKEN,    \* TRUE iff the variable is non-empty
    OLLAMA_API_KEY,  \* TRUE iff the variable is non-empty
    PARALLEL,
    MATRIX,          \* output of matrix_generator.py
    startup,         \* how the startup section (lines 23-110) ended
    idx,             \* loop position in MATRIX_ITEMS / PIDS
    FAILED,          \* counter of the parallel wait loop
    EXIT_CODE,       \* exit status of the orchestrator, -1 while it runs
    \* ---- run_evaluation.sh, one process per unit ----
    unitPc,
    status,          \* exit status of the unit's process, -1 if none
    \* ---- filesystem under tests/results ----
    fs,              \* per unit: the directory RESULTS_DIR and its files
    logs,            \* per unit: tests/results/<provider>_<model>.log
    \* ---- consolidate_results.sh ----
    consolidated,    \* consolidate_results.sh ran in this invocation
    cFAILED,
    cSUCCEEDED,
    comment,         \* comment.md: run that wrote it, 0 if absent
    \* ---- naming of result directories ----
    nameIn,          \* two (provider, model) pairs
    nameOut,         \* their RESULTS_DIR and log file
    \* ---- decision policy of the evaluator ----
    record,          \* the EvaluationRecord of one dual-pass run
    \* ---- skill selection: detect_changes.sh -> run_evaluation.sh ----
    skillArgs,       \* files of the PR and the SKILL_ARGS built from them
    \* ---- mechanical verifier ----
    verification,    \* a response, an ExpectationSpec and the verdict
    \* ---- dual-pass executor with its model invocation port ----
    exec,            \* position and calls of one unit's evaluator
    \* ---- skill registry ----
    registry,        \* a skills root and the result of discovery
    \* ---- benchmarks dashboard: pages/benchmarks/app.js ----
    benchmarks,      \* the runs of benchmarks.json, flattened in file order
    page,            \* "none", "unloaded" or "loaded"
    allData,
    flatSkills,
    currentSkill,
    currentSkillRuns,
    currentTestIndex,
    filterValue,     \* value of the selects filter-provider, -model, ...
    modelSelector,   \* selected index of modal-model-selector
    testSelector,    \* value of test-selector
    modalShown,
    location,        \* query parameters of window.location
    threw,           \* the last call of renderTable raised a TypeError
    \* ---- detail view of one run ----
    modalView        \* a run and the verdict and score shown for it

orchVars == <<pc, run, PR_NUMBER, GITHUB_TOKEN, OLLAMA_API_KEY, PARALLEL,
              MATRIX, startup, idx, FAILED, EXIT_CODE, unitPc, status, fs,
              logs, consolidated, cFAILED, cSUCCEEDED, comment>>
nameVars == <<nameIn, nameOut>>
decVars == <<record>>
argVars == <<skillArgs>>
verVars == <<verification>>
execVars == <<exec>>
regVars == <<registry>>
dashVars == <<benchmarks, page, allData, flatSkills, currentSkill,
              currentSkillRuns, currentTestIndex, filterValue, modelSelector,
              testSelector, modalShown, location, threw>>
viewVars == <<modalView>>
vars == <<orchVars, nameVars, decVars, argVars, verVars, execVars, regVars,
          dashVars, viewVars>>

notOrch == <<nameVars, decVars, argVars, verVars, execVars, regVars,
           dashVars, viewVars>>
notName == <<orchVars, decVars, argVars, verVars, execVars, regVars,
           dashVars, viewVars>>
notDec == <<orchVars, nameVars, argVars, verVars, execVars, regVars,
           dashVars, viewVars>>
notArg == <<orchVars, nameVars, decVars, verVars, execVars, regVars,
           dashVars, viewVars>>
notVer == <<orchVars, nameVars, decVars, argVars, execVars, regVars,
           dashVars, viewVars>>
notExec == <<orchVars, nameVars, decVars, argVars, verVars, regVars,
           dashVars, viewVars>>
notReg == <<orchVars, nameVars, decVars, argVars, verVars, execVars,
           dashVars, viewVars>>
notDash == <<orchVars, nameVars, decVars, argVars, verVars, execVars, regVars,
             viewVars>>
notView == <<orchVars, nameVars, decVars, argVars, verVars, execVars, regVars,
             dashVars>>

(***************************************************************************)
(* The evaluation matrix                                                   *)
(***************************************************************************)
Units == 1..MaxUnits

\* provider of matrix item u; two units may share a provider
ProviderOf(u) == IF u % 3 = 0 THEN "copilot" ELSE "ollama"

\* MATRIX_ITEMS / PIDS hold the items of the matrix in the order of the
\* generator's output; the model orders them by index.
RECURSIVE SortedSeq(_)
SortedSeq(S) ==
    IF S = {} THEN <<>>
    ELSE LET m == CHOOSE x \in S : \A y \in S : x <= y
         IN <<m>> \o SortedSeq(S \ {m})

\* matrix_generator.py prints nothing, '{"include": []}' or a matrix with
\* at least one item
MatrixOutputs ==
    {[out |-> FALSE, include |-> {}]} \cup
    {[out |-> TRUE, include |-> S] : S \in SUBSET Units}

MATRIX_ITEMS == SortedSeq(MATRIX.include)

NoDir == [dir |-> FALSE, exit_code |-> -1, summary |-> "none", run |-> 0]

NoUnits == [u \in Units |-> "none"]
NoStatus == [u \in Units |-> -1]

(***************************************************************************)
(* orchestrate_evaluations.sh, lines 23-110: arguments, environment,       *)
(* matrix.  Every `exit 1` of the section is one value of `startup`.       *)
(***************************************************************************)
\* the test of line 95 without its second operand
EmptyMatrixOnlyBlank(M) == ~M.out

\* line 95: [ -z "$MATRIX" ] || [ "$MATRIX" = '{"include": []}' ]
EmptyMatrix(M) == ~M.out \/ M.include = {}

\* lines 61-68: a missing GITHUB_TOKEN is fatal, a missing OLLAMA_API_KEY
\* only prints a warning
EnvironmentValid(token, key) == token

NotGenerated == [out |-> FALSE, include |-> {}]

\* the end of the startup section: a non-zero exit (lines 47, 55, 63, 81,
\* 93, 97) or the fall-through to line 112
StartupEnds(r) ==
    /\ startup' = r
    /\ pc' = IF r = "ok" THEN "clean" ELSE "done"
    /\ EXIT_CODE' = IF r = "ok" THEN -1 ELSE 1

\* An input is drawn when the script reads it; an input the script never
\* reached keeps its initial value.
Startup ==
    /\ pc \in {"idle", "done"}
    /\ run < MaxRuns
    /\ run' = run + 1
    /\ \E par \in BOOLEAN, pr \in BOOLEAN :
          /\ PARALLEL' = par
          /\ PR_NUMBER' = pr
          /\ \/ \* lines 45-48: unknown option
                /\ StartupEnds("unknown_option")
                /\ GITHUB_TOKEN' = FALSE
                /\ OLLAMA_API_KEY' = FALSE
                /\ MATRIX' = NotGenerated
             \/ \* lines 52-56: no PR number
                /\ ~pr
                /\ StartupEnds("usage")
                /\ GITHUB_TOKEN' = FALSE
                /\ OLLAMA_API_KEY' = FALSE
                /\ MATRIX' = NotGenerated
             \/ \* lines 58-76: environment
                /\ pr
                /\ \E token \in BOOLEAN, key \in BOOLEAN :
                      /\ GITHUB_TOKEN' = token
                      /\ OLLAMA_API_KEY' = key
                      /\ IF ~EnvironmentValid(token, key)
                         THEN /\ StartupEnds("no_token")
                              /\ MATRIX' = NotGenerated
                         ELSE \/ \* lines 81, 93 under `set -e`:
                                 \* detect_changes.sh or the generator fails
                                 /\ StartupEnds("tool_failed")
                                 /\ MATRIX' = NotGenerated
                              \/ \* lines 90-98: matrix
                                 \E M \in MatrixOutputs :
                                    /\ MATRIX' = M
                                    /\ StartupEnds(IF EmptyMatrix(M)
                                                   THEN "empty_matrix"
                                                   ELSE "ok")
    /\ idx' = 1
    /\ FAILED' = 0
    /\ unitPc' = NoUnits
    /\ status' = NoStatus
    /\ consolidated' = FALSE
    /\ cFAILED' = 0
    /\ cSUCCEEDED' = 0
    /\ UNCHANGED <<fs, logs, comment>>
    /\ UNCHANGED notOrch

\* lines 112-114: rm -rf tests/results/* ; mkdir -p tests/results
CleanResults ==
    /\ pc = "clean"
    /\ fs' = [u \in Units |-> NoDir]
    /\ logs' = [u \in Units |-> 0]
    /\ pc' = IF PARALLEL THEN "launch" ELSE "seq"
    /\ UNCHANGED <<run, PR_NUMBER, GITHUB_TOKEN, OLLAMA_API_KEY, PARALLEL,
                   MATRIX, startup, idx, FAILED, EXIT_CODE, unitPc, status,
                   consolidated, cFAILED, cSUCCEEDED, comment>>
    /\ UNCHANGED notOrch

\* lines 121-126: one iteration of the launch loop; the redirection creates
\* the unit's log file, the unit runs in the background
ParLaunch ==
    /\ pc = "launch"
    /\ idx <= Len(MATRIX_ITEMS)
    /\ LET u == MATRIX_ITEMS[idx] IN
          /\ unitPc' = [unitPc EXCEPT ![u] = "init"]
          /\ logs' = [logs EXCEPT ![u] = run]
    /\ IF idx = Len(MATRIX_ITEMS)
       THEN pc' = "wait" /\ idx' = 1
       ELSE pc' = pc /\ idx' = idx + 1
    /\ UNCHANGED <<run, PR_NUMBER, GITHUB_TOKEN, OLLAMA_API_KEY, PARALLEL,
                   MATRIX, startup, FAILED, EXIT_CODE, status, fs,
                   consolidated, cFAILED, cSUCCEEDED, comment>>
    /\ UNCHANGED notOrch

\* a wait that returns for a launched unit whether or not it has ended
WaitReturnsAtOnce(u) == unitPc[u] # "none"

\* line 131: `wait "$pid"` returns when the unit's process has terminated
WaitReturns(u) == unitPc[u] = "exited"

\* lines 129-134: `if ! wait "$pid"` for the next pid of PIDS
ParWait ==
    /\ pc = "wait"
    /\ idx <= Len(MATRIX_ITEMS)
    /\ LET u == MATRIX_ITEMS[idx] IN
          /\ WaitReturns(u)
          /\ FAILED' = IF status[u] # 0 THEN FAILED + 1 ELSE FAILED
    /\ IF idx = Len(MATRIX_ITEMS)
       THEN pc' = "consolidate" /\ idx' = 1
       ELSE pc' = pc /\ idx' = idx + 1
    /\ UNCHANGED <<run, PR_NUMBER, GITHUB_TOKEN, OLLAMA_API_KEY, PARALLEL,
                   MATRIX, startup, EXIT_CODE, unitPc, status, fs, logs,
                   consolidated, cFAILED, cSUCCEEDED, comment>>
    /\ UNCHANGED notOrch

\* lines 144-145: the next unit is started in the foreground
SeqRun ==
    /\ pc = "seq"
    /\ idx <= Len(MATRIX_ITEMS)
    /\ unitPc' = [unitPc EXCEPT ![MATRIX_ITEMS[idx]] = "init"]
    /\ pc' = "seqwait"
    /\ UNCHANGED <<run, PR_NUMBER, GITHUB_TOKEN, OLLAMA_API_KEY, PARALLEL,
                   MATRIX, startup, idx, FAILED, EXIT_CODE, status, fs, logs,
                   consolidated, cFAILED, cSUCCEEDED, comment>>
    /\ UNCHANGED notOrch

\* line 2 with line 145: under `set -e` a non-zero status of the foreground
\* unit ends the orchestrator with that status
SeqAbortsOn(st) == st # 0

\* lines 145-148: the foreground unit returned
SeqReturn ==
    /\ pc = "seqwait"
    /\ LET u == MATRIX_ITEMS[idx] IN
          /\ unitPc[u] = "exited"
          /\ IF SeqAbortsOn(status[u])
             THEN /\ pc' = "done"
                  /\ EXIT_CODE' = status[u]
                  /\ idx' = idx
             ELSE /\ pc' = IF idx = Len(MATRIX_ITEMS) THEN "consolidate"
                           ELSE "seq"
                  /\ EXIT_CODE' = EXIT_CODE
                  /\ idx' = idx + 1
    /\ UNCHANGED <<run, PR_NUMBER, GITHUB_TOKEN, OLLAMA_API_KEY, PARALLEL,
                   MATRIX, startup, FAILED, unitPc, status, fs, logs,
                   consolidated, cFAILED, cSUCCEEDED, comment>>
    /\ UNCHANGED notOrch

(***************************************************************************)
(* run_evaluation.sh: one process per (provider, model) unit               *)
(***************************************************************************)
\* exit statuses of tests/evaluator.py
EvaluatorCodes == {0, 1}

\* lines 54-77: arguments, environment, mkdir -p "$RESULTS_DIR"
UnitSetup(u) ==
    /\ unitPc[u] = "init"
    /\ unitPc' = [unitPc EXCEPT ![u] = "eval"]
    /\ fs' = [fs EXCEPT ![u] = [@ EXCEPT !.dir = TRUE, !.run = run]]
    /\ UNCHANGED <<pc, run, PR_NUMBER, GITHUB_TOKEN, OLLAMA_API_KEY, PARALLEL,
                   MATRIX, startup, idx, FAILED, EXIT_CODE, status, logs,
                   consolidated, cFAILED, cSUCCEEDED, comment>>
    /\ UNCHANGED notOrch

\* line 117: the evaluator, running with --results-dir "$RESULTS_DIR" and
\* --report, writes summary.json into the unit's directory
EvaluatorWrite(u) ==
    /\ unitPc[u] = "eval"
    /\ fs[u].summary \in {"none", "partial"}
    /\ fs' = [fs EXCEPT ![u] = [@ EXCEPT
                 !.summary = IF @ = "none" THEN "partial" ELSE "complete"]]
    /\ UNCHANGED <<pc, run, PR_NUMBER, GITHUB_TOKEN, OLLAMA_API_KEY, PARALLEL,
                   MATRIX, startup, idx, FAILED, EXIT_CODE, unitPc, status,
                   logs, consolidated, cFAILED, cSUCCEEDED, comment>>
    /\ UNCHANGED notOrch

\* line 47 with lines 117-122: under `set -e` a non-zero status of the
\* evaluator ends the script at line 117, so line 122 is reached only with
\* EXIT_CODE = 0
SavesExitCode(code) == code = 0

\* lines 117-124: the evaluator returned with `code`
EvaluatorExit(u) ==
    /\ unitPc[u] = "eval"
    /\ fs[u].summary # "partial"
    /\ \E code \in EvaluatorCodes :
          /\ status' = [status EXCEPT ![u] = code]
          /\ fs' = IF SavesExitCode(code)
                   THEN [fs EXCEPT ![u] = [@ EXCEPT !.exit_code = code]]
                   ELSE fs
    /\ unitPc' = [unitPc EXCEPT ![u] = "exited"]
    /\ UNCHANGED <<pc, run, PR_NUMBER, GITHUB_TOKEN, OLLAMA_API_KEY, PARALLEL,
                   MATRIX, startup, idx, FAILED, EXIT_CODE, logs,
                   consolidated, cFAILED, cSUCCEEDED, comment>>
    /\ UNCHANGED notOrch

\* the unit's process is killed: no handler of run_evaluation.sh or of the
\* orchestrator runs, the files written so far stay
UnitKilled(u) ==
    /\ unitPc[u] \in {"init", "eval"}
    /\ unitPc' = [unitPc EXCEPT ![u] = "exited"]
    /\ status' = [status EXCEPT ![u] = KilledStatus]
    /\ UNCHANGED <<pc, run, PR_NUMBER, GITHUB_TOKEN, OLLAMA_API_KEY, PARALLEL,
                   MATRIX, startup, idx, FAILED, EXIT_CODE, fs, logs,
                   consolidated, cFAILED, cSUCCEEDED, comment>>
    /\ UNCHANGED notOrch

(***************************************************************************)
(* consolidate_results.sh, run by line 153 of the orchestrator             *)
(***************************************************************************)
\* line 14: find "$RESULTS_BASE" -type d -mindepth 2
RESULT_DIRS == {u \in Units : fs[u].dir}

\* lines 30-33: directories without an exit_code file are skipped
Counted == {u \in RESULT_DIRS : fs[u].exit_code # -1}

\* lines 38-44
CountSucceeded == Cardinality({u \in Counted : fs[u].exit_code = 0})
CountFailed == Cardinality({u \in Counted : fs[u].exit_code # 0})

\* lines 16-19 and 72-81
ConsolidateExit ==
    IF RESULT_DIRS = {} THEN 1
    ELSE IF CountFailed > 0 THEN 1
    ELSE 0

\* lines 153-164 of the orchestrator with the whole of consolidate_results.sh
Consolidate ==
    /\ pc = "consolidate"
    /\ consolidated' = TRUE
    /\ cSUCCEEDED' = IF RESULT_DIRS = {} THEN 0 ELSE CountSucceeded
    /\ cFAILED' = IF RESULT_DIRS = {} THEN 0 ELSE CountFailed
    \* lines 60-70: comment.md
    /\ comment' = IF RESULT_DIRS # {} /\ PR_NUMBER /\ CountFailed = 0
                  THEN run ELSE comment
    /\ EXIT_CODE' = ConsolidateExit
    /\ pc' = "done"
    /\ UNCHANGED <<run, PR_NUMBER, GITHUB_TOKEN, OLLAMA_API_KEY, PARALLEL,
                   MATRIX, startup, idx, FAILED, unitPc, status, fs, logs>>
    /\ UNCHANGED notOrch

(***************************************************************************)
(* Specification of the orchestrated runs                                  *)
(***************************************************************************)
NameIdle == nameIn = <<>> /\ nameOut = <<>>
DecIdle == record = [state |-> "none"]
ArgIdle == skillArgs = [state |-> "none"]
VerIdle == verification = [state |-> "none"]
ExecIdle == exec = [state |-> "none"]
RegIdle == registry = [state |-> "none"]
EvaluatorIdle == ArgIdle /\ VerIdle /\ ExecIdle /\ RegIdle
DashIdle ==
    /\ benchmarks = <<>>
    /\ page = "none"
    /\ allData = <<>>
    /\ flatSkills = <<>>
    /\ currentSkill = [copy |-> "null"]
    /\ currentSkillRuns = <<>>
    /\ currentTestIndex = 0
    /\ filterValue = [p |-> "", m |-> "", s |-> "", i |-> ""]
    /\ modelSelector = 0
    /\ testSelector = ""
    /\ modalShown = FALSE
    /\ location = [p |-> "", m |-> "", s |-> "", i |-> "", v |-> "",
                   r |-> [provider |-> "", model |-> "", timestamp |-> 0],
                   t |-> "(absent)"]
    /\ threw = FALSE
ViewIdle == modalView = [state |-> "none"]
DashboardIdle == DashIdle /\ ViewIdle

OrchInit ==
    /\ pc = "idle"
    /\ run = 0
    /\ PR_NUMBER = FALSE
    /\ GITHUB_TOKEN = FALSE
    /\ OLLAMA_API_KEY = FALSE
    /\ PARALLEL = FALSE
    /\ MATRIX = NotGenerated
    /\ startup = "none"
    /\ idx = 1
    /\ FAILED = 0
    /\ EXIT_CODE = -1
    /\ unitPc = NoUnits
    /\ status = NoStatus
    /\ fs = [u \in Units |-> NoDir]
    /\ logs = [u \in Units |-> 0]
    /\ consolidated = FALSE
    /\ cFAILED = 0
    /\ cSUCCEEDED = 0
    /\ comment = 0

OrchNext ==
    \/ Startup
    \/ CleanResults
    \/ ParLaunch
    \/ ParWait
    \/ SeqRun
    \/ SeqReturn
    \/ Consolidate
    \/ \E u \in Units : UnitSetup(u)
    \/ \E u \in Units : EvaluatorWrite(u)
    \/ \E u \in Units : EvaluatorExit(u)
    \/ \E u \in Units : UnitKilled(u)

OrchSpecInit ==
    /\ OrchInit /\ NameIdle /\ DecIdle
    /\ EvaluatorIdle /\ DashboardIdle

OrchSpec == OrchSpecInit /\ [][OrchNext]_vars

(***************************************************************************)
(* Properties of the orchestrated runs                                     *)
(***************************************************************************)
Started == {u \in Units : unitPc[u] # "none"}
Running == {u \in Units : unitPc[u] \in {"init", "eval"}}
PassedStartup == startup = "ok"

\* C1: in both scheduling modes, once the orchestrator has passed its
\* startup checks and has exited, every unit of the matrix has been run and
\* consolidate_results has been executed, also when a unit exited non-zero.
C1_FailingUnitNeverAbortsSiblings ==
    (pc = "done" /\ PassedStartup) =>
        /\ \A u \in MATRIX.include : u \in Started
        /\ consolidated

\* C2: after consolidation every started unit that exited non-zero or was
\* killed is counted as FAILED, and no started unit is missing from the
\* Succeeded/Failed counts.
C2_EveryFailedUnitCounted ==
    consolidated =>
        /\ cFAILED = Cardinality({u \in Started : status[u] # 0})
        /\ cSUCCEEDED + cFAILED = Cardinality(Started)

\* C3: the orchestrator exits 0 if and only if every unit of the matrix
\* exited 0.
C3_ExitZeroIffAllUnitsPassed ==
    (pc = "done" /\ PassedStartup) =>
        (EXIT_CODE = 0 <=> \A u \in MATRIX.include : status[u] = 0)

\* C5: history is append-only: a step of a run never changes or deletes a
\* document (result directory, log, consolidated comment) that an earlier
\* run wrote.
C5_HistoryAppendOnly ==
    [][/\ \A u \in Units :
             /\ (fs[u].dir /\ fs[u].run < run') => fs'[u] = fs[u]
             /\ (logs[u] # 0 /\ logs[u] < run') => logs'[u] = logs[u]
       /\ (comment # 0 /\ comment < run') => comment' = comment]_vars

\* C6: a unit of provider ollama is launched only when OLLAMA_API_KEY is
\* set; without the credential the script stops at startup.
C6_MissingCredentialFatalAtStartup ==
    \A u \in Started : ProviderOf(u) = "ollama" => OLLAMA_API_KEY

\* C7: in --parallel mode two units of the same provider never run at the
\* same time.
C7_SameProviderSerialized ==
    PARALLEL =>
        \A u \in Running, v \in Running :
            u # v => ProviderOf(u) # ProviderOf(v)

C9_EmptyMatrixFatalAtStartup ==
    [][(startup' \in {"empty_matrix", "ok"} /\ MATRIX'.include = {}) =>
          /\ pc' = "done"
          /\ EXIT_CODE' # 0
          /\ \A u \in Units : unitPc'[u] = "none"
          /\ ~consolidated'
          /\ fs' = fs
          /\ logs' = logs
          /\ comment' = comment]_vars

\* C9 witness: a run stopped on '{"include": []}' while the result
\* directories of the earlier run are still there.
C9_Witness ==
    /\ startup = "empty_matrix"
    /\ MATRIX.out
    /\ pc = "done"
    /\ EXIT_CODE = 1
    /\ run > 1
    /\ \E u \in Units : fs[u].dir /\ fs[u].exit_code = 0

\* C18: for every run of the evaluator that returned, with status 0 or not,
\* run_evaluation.sh has written that status to RESULTS_DIR/exit_code and
\* has exited with it.
C18_ExitCodeAlwaysRecorded ==
    \A u \in Units :
        (unitPc[u] = "exited" /\ status[u] \in EvaluatorCodes)
            => fs[u].exit_code = status[u]

\* C20: in --parallel mode consolidation starts only after every launched
\* unit has terminated, and its Succeeded/Failed counts are
\* a function of what the units left behind, not of their completion order.
C20_ConsolidateAfterAllUnits ==
    (PARALLEL /\ (pc = "consolidate" \/ consolidated)) =>
        /\ \A u \in MATRIX.include : unitPc[u] = "exited"
        /\ consolidated =>
              /\ cSUCCEEDED = Cardinality({u \in MATRIX.include : status[u] = 0})
              /\ cFAILED = Cardinality({u \in MATRIX.include :
                                           fs[u].exit_code \notin {-1, 0}})

\* C20 witness: a parallel run consolidated after two units ended
\* differently, the later-launched unit first or not.
C20_Witness ==
    /\ PARALLEL
    /\ consolidated
    /\ \E u \in MATRIX.include, v \in MATRIX.include :
          /\ u < v
          /\ status[u] = 0
          /\ status[v] = KilledStatus
          /\ fs[v].summary = "partial"

(***************************************************************************)
(* Naming of a unit's result namespace                                     *)
(* A name is a sequence of characters.                                     *)
(***************************************************************************)
ModelChars == {"a", "_", ":", "/"}
ProviderChars == {"o", "_"}

NamesOver(C) == UNION {[1..n -> C] : n \in 1..MaxNameLen}

\* ${MODEL//[:\/]/_}: every ':' and every '/' becomes '_'
Sanitize(MODEL) ==
    [i \in 1..Len(MODEL) |-> IF MODEL[i] \in {":", "/"} THEN "_" ELSE MODEL[i]]

RESULTS_BASE == <<"tests", "/", "results", "/">>

\* run_evaluation.sh: RESULTS_DIR="tests/results/${PROVIDER}/${MODEL//[:\/]/_}"
RESULTS_DIR(PROVIDER, MODEL) ==
    RESULTS_BASE \o PROVIDER \o <<"/">> \o Sanitize(MODEL)

\* orchestrate_evaluations.sh: "tests/results/${provider}_${model//[:\/]/_}.log"
LogFile(provider, model) ==
    RESULTS_BASE \o provider \o <<"_">> \o Sanitize(model) \o <<".log">>

ModelConfigs ==
    {[provider |-> p, model |-> m] :
        p \in NamesOver(ProviderChars), m \in NamesOver(ModelChars)}

NameInit ==
    /\ nameIn \in ModelConfigs \X ModelConfigs
    /\ nameOut = <<>>

\* the two units compute their result directory and their log file
ComputeNames ==
    /\ nameIn # <<>>
    /\ nameOut = <<>>
    /\ nameOut' = [i \in 1..2 |->
                      [dir |-> RESULTS_DIR(nameIn[i].provider, nameIn[i].model),
                       log |-> LogFile(nameIn[i].provider, nameIn[i].model)]]
    /\ UNCHANGED nameIn
    /\ UNCHANGED notName

NameNext == ComputeNames

NameSpecInit ==
    /\ OrchInit /\ NameInit /\ DecIdle
    /\ EvaluatorIdle /\ DashboardIdle

NameSpec == NameSpecInit /\ [][NameNext]_vars

\* C4: distinct (provider, model) pairs always get distinct result
\* directories.
C4_ResultsDirInjective ==
    (nameOut # <<>> /\ nameIn[1] # nameIn[2]) =>
        nameOut[1].dir # nameOut[2].dir

(***************************************************************************)
(* Decision policy of the evaluator (tests/evaluator.py)                   *)
(***************************************************************************)
\* --threshold: the orchestrator's default or the value of its option
Thresholds == {DefaultThreshold, 70}
Scores == {0, 49, 50, 69, 70, 100}
Better == {"Baseline", "Skill", "Equal"}

JudgeVerdicts ==
    {[kind |-> "verdict", better |-> b, score |-> s] : b \in Better, s \in Scores}
JudgeError == [kind |-> "error", better |-> "none", score |-> -1]
NoJudge == [kind |-> "none", better |-> "none", score |-> -1]

\* what the judge's invocation gives back: a failed call, a text that does
\* not parse, or structured data in which a required field may be absent
AbsentScore == 0 - 1
JudgeReplies ==
    {[call |-> "failed", parsable |-> FALSE, better |-> "absent",
      score |-> AbsentScore],
     [call |-> "ok", parsable |-> FALSE, better |-> "absent",
      score |-> AbsentScore]} \cup
    {[call |-> "ok", parsable |-> TRUE, better |-> b, score |-> sc] :
        b \in Better \cup {"absent"}, sc \in Scores \cup {AbsentScore}}
NoReply == [call |-> "none", parsable |-> FALSE, better |-> "absent",
            score |-> AbsentScore]

\* a parser that fills an absent field with a default instead of failing
ParseJudgeReplyBestEffort(reply) ==
    IF reply.call # "ok" \/ ~reply.parsable THEN JudgeError
    ELSE [kind |-> "verdict",
          better |-> IF reply.better = "absent" THEN "Equal" ELSE reply.better,
          score |-> IF reply.score = AbsentScore THEN 0 ELSE reply.score]

\* the judge's outcome: a JudgeVerdict only from a parsed reply with every
\* required field, a JudgeError otherwise
ParseJudgeReply(reply) ==
    IF \/ reply.call # "ok"
       \/ ~reply.parsable
       \/ reply.better = "absent"
       \/ reply.score = AbsentScore
    THEN JudgeError
    ELSE [kind |-> "verdict", better |-> reply.better, score |-> reply.score]

\* a decision policy that reads the judge's fields whether or not judging
\* is enabled
DecideJudgeOnly(judging, mech, judge, threshold) ==
    IF judge.kind = "error" THEN mech
    ELSE judge.score >= threshold /\ judge.better \in {"Skill", "Equal"}

\* a decision policy in which a failed mechanical check vetoes the judge
DecideMechanicalVeto(judging, mech, judge, threshold) ==
    IF ~judging THEN mech
    ELSE IF judge.kind = "verdict"
         THEN mech /\ judge.score >= threshold /\ judge.better \in {"Skill", "Equal"}
         ELSE mech

\* final pass/fail from the mechanical verdict of the skill-augmented
\* response and the judge's outcome
Decide(judging, mech, judge, threshold) ==
    IF ~judging THEN mech
    ELSE IF judge.kind = "verdict"
         THEN judge.score >= threshold /\ judge.better \in {"Skill", "Equal"}
         ELSE mech

\* a record is flagged when the judge was asked and failed
JudgeDegraded(judging, judge) == judging /\ judge.kind = "error"

DecInit == record = [state |-> "none"]

\* one dual-pass run produces its EvaluationRecord
Evaluate ==
    /\ record.state = "none"
    /\ \E judging \in BOOLEAN, mech \in BOOLEAN, baseMech \in BOOLEAN,
          threshold \in Thresholds,
          reply \in JudgeReplies \cup {NoReply} :
          LET judge == IF judging THEN ParseJudgeReply(reply) ELSE NoJudge IN
          /\ judging <=> reply # NoReply
          /\ record' = [state |-> "done",
                        reply |-> reply,
                        judging |-> judging,
                        threshold |-> threshold,
                        baselineMechanical |-> baseMech,
                        mechanical |-> mech,
                        judge |-> judge,
                        decision |-> Decide(judging, mech, judge, threshold),
                        degraded |-> JudgeDegraded(judging, judge)]
    /\ UNCHANGED notDec

DecNext == Evaluate

DecSpecInit ==
    /\ OrchInit /\ NameIdle /\ DecInit
    /\ EvaluatorIdle /\ DashboardIdle

DecSpec == DecSpecInit /\ [][DecNext]_vars

PrFiles ==
    {<<"skills", "s1", "SKILL.md">>, <<"skills", "s1", "test.json">>,
     <<"skills", "s2", "SKILL.md">>, <<"skills", "README.md">>,
     <<"docs", "x.md">>, <<"ci", "release.sh">>, <<"README.md">>}

\* `sort -u` order of the second path components
SortOrder == <<"README.md", "s1", "s2">>

\* grep '^skills/' | cut -d'/' -f2 | sort -u | xargs
ModifiedSkillsOf(files) ==
    LET second == {f[2] : f \in {g \in files : g[1] = "skills" /\ Len(g) >= 2}}
    IN SelectSeq(SortOrder, LAMBDA w : w \in second)

\* stdout of detect_changes.sh (part_005 lines 22-34): the progress line,
\* then either the 'Modified skills:' line and the skills, or the
\* 'No skills modified' line and an empty line
DetectChangesStdout(files) ==
    LET skills == ModifiedSkillsOf(files) IN
    <<"Detecting", "modified", "skills", "in", "PR", "#N...">> \o
    (IF skills # <<>>
     THEN <<"Modified", "skills:">> \o skills \o skills
     ELSE <<"No", "skills", "modified", "-", "will", "test", "all">>)

RECURSIVE SkillFlags(_)
SkillFlags(words) ==
    IF words = <<>> THEN <<>>
    ELSE <<"--skill", Head(words)>> \o SkillFlags(Tail(words))

\* run_evaluation.sh lines 83-91 (and validate_skills.sh lines 75-83)
SKILL_ARGS(MODIFIED_SKILLS) ==
    IF MODIFIED_SKILLS # <<>> THEN SkillFlags(MODIFIED_SKILLS)
    ELSE <<"--all">>

ArgInit == skillArgs \in {[state |-> "pr", files |-> F] : F \in SUBSET PrFiles}

\* one orchestrated run up to the evaluator's command line, and the same PR
\* under validate_skills.sh, which computes MODIFIED_SKILLS inline
BuildSkillArgs ==
    /\ skillArgs.state = "pr"
    /\ skillArgs' =
          [state |-> "built",
           files |-> skillArgs.files,
           \* orchestrate_evaluations.sh line 81: MODIFIED_SKILLS=$(...)
           orchestrated |-> SKILL_ARGS(DetectChangesStdout(skillArgs.files)),
           validate |-> SKILL_ARGS(ModifiedSkillsOf(skillArgs.files))]
    /\ UNCHANGED notArg

ArgNext == BuildSkillArgs

ArgSpecInit ==
    /\ OrchInit /\ NameIdle /\ DecIdle
    /\ ArgInit /\ VerIdle /\ ExecIdle /\ RegIdle /\ DashboardIdle

ArgSpec == ArgSpecInit /\ [][ArgNext]_vars

\* the skill directories a PR modifies
ModifiedSkillDirs(files) ==
    {f[2] : f \in {g \in files : g[1] = "skills" /\ Len(g) >= 3}}

\* the names that follow a --skill in an argument list
SkillNamesIn(args) ==
    {args[i + 1] : i \in {j \in 1..(Len(args) - 1) : args[j] = "--skill"}}

\* C19: under the orchestrator the evaluator gets exactly one --skill per
\* modified skill directory and nothing else as a skill name, and --all
\* with no --skill when the PR modifies no skill directory.
C19_SkillArgsMatchModifiedSkills ==
    skillArgs.state = "built" =>
        LET dirs == ModifiedSkillDirs(skillArgs.files)
            a == skillArgs.orchestrated
        IN IF dirs = {}
           THEN a = <<"--all">>
           ELSE /\ SkillNamesIn(a) = dirs
                /\ Len(a) = 2 * Cardinality(dirs)

(***************************************************************************)
(* Mechanical Verifier: verify(response, spec) -> MechanicalVerdict.       *)
(* A response is a sequence of characters; an ExpectationSpec names the    *)
(* fields it has, and an absent field carries no value.                    *)
(***************************************************************************)
RespChars == {"a", "b", "c"}
Responses == UNION {[1..n -> RespChars] : n \in 0..MaxRespLen}
CheckNames == <<"includes", "excludes", "regex", "min_length", "max_length">>
IncludeStrings == {<<"a">>, <<"a", "b">>}
ExcludeStrings == {<<"c">>, <<"b", "c">>}
\* a pattern is a sequence of literal characters and "." (any character)
RegexPatterns == {<<"a", ".">>, <<".", "c">>}
AbsentLength == 0 - 1
MinLengths == {0, 2}
MaxLengths == {1, 3}
ExpectationSpecs ==
    {sp \in [has : SUBSET {CheckNames[i] : i \in 1..Len(CheckNames)},
             includes : SUBSET IncludeStrings,
             excludes : SUBSET ExcludeStrings,
             regex : SUBSET RegexPatterns,
             min_length : MinLengths \cup {AbsentLength},
             max_length : MaxLengths \cup {AbsentLength}] :
        /\ "includes" \notin sp.has => sp.includes = {}
        /\ "excludes" \notin sp.has => sp.excludes = {}
        /\ "regex" \notin sp.has => sp.regex = {}
        /\ "min_length" \in sp.has <=> sp.min_length # AbsentLength
        /\ "max_length" \in sp.has <=> sp.max_length # AbsentLength}

\* substring search, case-sensitive
Contains(response, str) ==
    \E i \in 1..(Len(response) - Len(str) + 1) :
        SubSeq(response, i, i + Len(str) - 1) = str

\* regular-expression search: a match anywhere in the response
Search(pattern, response) ==
    \E i \in 1..(Len(response) - Len(pattern) + 1) :
        \A j \in 1..Len(pattern) :
            pattern[j] = "." \/ response[i + j - 1] = pattern[j]

IncludesViolated(response, sp) ==
    "includes" \in sp.has /\ \E str \in sp.includes : ~Contains(response, str)
ExcludesViolated(response, sp) ==
    "excludes" \in sp.has /\ \E str \in sp.excludes : Contains(response, str)
RegexViolated(response, sp) ==
    "regex" \in sp.has /\ \E pattern \in sp.regex : ~Search(pattern, response)
MinLengthViolated(response, sp) ==
    "min_length" \in sp.has /\ Len(response) < sp.min_length

\* a length check that reads an absent max_length as 0
MaxLengthViolatedDefaultZero(response, sp) ==
    Len(response) > (IF "max_length" \in sp.has THEN sp.max_length ELSE 0)

MaxLengthViolated(response, sp) ==
    "max_length" \in sp.has /\ Len(response) > sp.max_length

CheckViolated(name, response, sp) ==
    CASE name = "includes" -> IncludesViolated(response, sp)
      [] name = "excludes" -> ExcludesViolated(response, sp)
      [] name = "regex" -> RegexViolated(response, sp)
      [] name = "min_length" -> MinLengthViolated(response, sp)
      [] name = "max_length" -> MaxLengthViolated(response, sp)

\* a verifier that returns at the first violated check
verifyShortCircuit(response, sp) ==
    LET failed == SelectSeq(CheckNames,
                            LAMBDA name : CheckViolated(name, response, sp))
        violations == IF failed = <<>> THEN <<>> ELSE <<Head(failed)>>
    IN  [pass |-> violations = <<>>, violations |-> violations]

\* every check is evaluated; the verdict carries all violated checks
verify(response, sp) ==
    LET violations == SelectSeq(CheckNames,
                                LAMBDA name : CheckViolated(name, response, sp))
    IN  [pass |-> violations = <<>>, violations |-> violations]

VerInit == verification = [state |-> "none"]

VerifyResponse ==
    /\ verification.state = "none"
    /\ \E response \in Responses, sp \in ExpectationSpecs :
          verification' = [state |-> "verified",
                           response |-> response,
                           spec |-> sp,
                           verdict |-> verify(response, sp)]
    /\ UNCHANGED notVer

VerNext == VerifyResponse
VerSpecInit ==
    /\ OrchInit /\ NameIdle /\ DecIdle
    /\ ArgIdle /\ VerInit /\ ExecIdle /\ RegIdle /\ DashboardIdle
VerSpec == VerSpecInit /\ [][VerNext]_vars

Listed(name) ==
    \E i \in 1..Len(verification.verdict.violations) :
        verification.verdict.violations[i] = name

\* C13: the violation list names exactly the checks the response violates
\* (a required string missing, a forbidden string present, a pattern with
\* no match, a length out of bounds), each once, and the verdict is pass
\* iff the list is empty.
C13_AllViolationsListed ==
    verification.state = "verified" =>
        LET r == verification.response
            sp == verification.spec
            v == verification.verdict.violations
        IN  /\ Listed("includes") <=>
                  \E str \in sp.includes : ~Contains(r, str)
            /\ Listed("excludes") <=>
                  \E str \in sp.excludes : Contains(r, str)
            /\ Listed("regex") <=>
                  \E pattern \in sp.regex : ~Search(pattern, r)
            /\ Listed("min_length") <=>
                  (sp.min_length # AbsentLength /\ Len(r) < sp.min_length)
            /\ Listed("max_length") <=>
                  (sp.max_length # AbsentLength /\ Len(r) > sp.max_length)
            /\ \A i, j \in 1..Len(v) : v[i] = v[j] => i = j
            /\ verification.verdict.pass <=> v = <<>>
            \* {includes: ["a"], excludes: ["bc"], min_length: 2} against
            \* "abc" fails with violations exactly ["excludes"]
            /\ (/\ r = <<"a", "b", "c">>
                /\ sp.has = {"includes", "excludes", "min_length"}
                /\ sp.includes = {<<"a">>}
                /\ sp.excludes = {<<"b", "c">>}
                /\ sp.min_length = 2) => v = <<"excludes">>

\* C13 witness: a response that lacks a required string and also holds a
\* forbidden one, while its length is within bounds.
C13_Witness ==
    /\ verification.state = "verified"
    /\ verification.response = <<"b", "c">>
    /\ verification.spec.includes = {<<"a">>}
    /\ verification.spec.excludes = {<<"b", "c">>}
    /\ verification.spec.min_length = 2
    /\ verification.verdict.violations = <<"includes", "excludes">>
    /\ ~verification.verdict.pass

\* C14: a spec whose fields are all absent or empty passes every response
\* with an empty violation list, and an absent field is never listed as a
\* violation.
C14_AbsentFieldsSkipped ==
    verification.state = "verified" =>
        LET sp == verification.spec IN
        /\ (/\ sp.includes = {} /\ sp.excludes = {} /\ sp.regex = {}
            /\ sp.min_length = AbsentLength /\ sp.max_length = AbsentLength)
               => verification.verdict = [pass |-> TRUE, violations |-> <<>>]
        /\ \A i \in 1..Len(CheckNames) :
               CheckNames[i] \notin sp.has => ~Listed(CheckNames[i])

\* C14 witness: a non-empty response verified against a spec with no
\* length bounds, an absent excludes and an empty includes.
C14_Witness ==
    /\ verification.state = "verified"
    /\ Len(verification.response) = MaxRespLen
    /\ verification.spec.has = {"includes"}
    /\ verification.spec.includes = {}
    /\ verification.verdict = [pass |-> TRUE, violations |-> <<>>]

(***************************************************************************)
(* Dual-Pass Executor and Model Invocation Port: one unit runs its test    *)
(* cases in sequence; each test case is a baseline call, a skill call and, *)
(* when judging is enabled, a judge call; each call is an invocation with  *)
(* a bounded retry policy.                                                 *)
(***************************************************************************)
Outcomes == {"success", "network", "timeout", "auth", "client_4xx"}

\* a retry policy that retries after any failure
RetryableAnyFailure(outcome) == outcome # "success"

\* only network-class failures are retried
Retryable(outcome) == outcome = "network"

\* a dual pass that sends the skill prompt first
PhaseOrderSkillFirst == <<"skill", "baseline">>

\* baseline-then-skill, not randomized
PhaseOrder == <<"baseline", "skill">>

Prompt(test, phase) == <<phase, test>>
Pending == [baseline |-> "pending", skill |-> "pending", judge |-> "pending"]
NewCall(test, phase) ==
    [state |-> "inflight", test |-> test, phase |-> phase,
     tried |-> <<>>, sent |-> <<Prompt(test, phase)>>]

ExecInit == exec = [state |-> "none"]

StartUnit ==
    /\ exec.state = "none"
    /\ \E judging \in BOOLEAN, n \in 1..MaxTests :
          exec' = [state |-> "running",
                   judging |-> judging,
                   tests |-> n,
                   results |-> [t \in 1..n |-> Pending],
                   call |-> NewCall(1, PhaseOrder[1])]
    /\ UNCHANGED notExec

\* an attempt fails with a retryable failure and retries remain: the same
\* prompt is sent again
AttemptRetried ==
    /\ exec.state = "running"
    /\ exec.call.state = "inflight"
    /\ \E outcome \in Outcomes :
          /\ Retryable(outcome)
          /\ Len(exec.call.tried) < MaxRetries
          /\ exec' = [exec EXCEPT
                 !.call.tried = Append(@, outcome),
                 !.call.sent = Append(@, Prompt(exec.call.test,
                                                exec.call.phase))]
    /\ UNCHANGED notExec

\* the terminal attempt: its result is the invocation's InvocationResult
AttemptReturns ==
    /\ exec.state = "running"
    /\ exec.call.state = "inflight"
    /\ \E outcome \in Outcomes :
          /\ ~(Retryable(outcome) /\ Len(exec.call.tried) < MaxRetries)
          /\ exec' = [exec EXCEPT
                 !.call.tried = Append(@, outcome),
                 !.call.state = "returned",
                 !.results[exec.call.test][exec.call.phase] = outcome]
    /\ UNCHANGED notExec

\* the executor goes on to the next call of the test case, to the next
\* test case, or ends the unit
Proceed ==
    /\ exec.state = "running"
    /\ exec.call.state = "returned"
    /\ LET t == exec.call.test
           r == exec.results[t]
       IN  IF exec.call.phase = PhaseOrder[1]
           THEN exec' = [exec EXCEPT !.call = NewCall(t, PhaseOrder[2])]
           ELSE IF /\ exec.call.phase = PhaseOrder[2]
                   /\ exec.judging
                   /\ r.baseline = "success"
                   /\ r.skill = "success"
           THEN exec' = [exec EXCEPT !.call = NewCall(t, "judge")]
           ELSE LET closed == IF r.judge = "pending"
                              THEN [exec EXCEPT !.results[t].judge = "skipped"]
                              ELSE exec
                IN  IF t < exec.tests
                    THEN exec' = [closed EXCEPT
                                      !.call = NewCall(t + 1, PhaseOrder[1])]
                    ELSE exec' = [closed EXCEPT !.state = "done"]
    /\ UNCHANGED notExec

ExecNext == StartUnit \/ AttemptRetried \/ AttemptReturns \/ Proceed
ExecSpecInit ==
    /\ OrchInit /\ NameIdle /\ DecIdle
    /\ ArgIdle /\ VerIdle /\ ExecInit /\ RegIdle /\ DashboardIdle
ExecSpec == ExecSpecInit /\ [][ExecNext]_vars

\* C15: the skill call of a test case is made only after its baseline call
\* has returned, the judge call only with judging enabled and after both
\* have returned, and while a test case is in progress every earlier test
\* case is complete and no later one has begun.
C15_BaselineSkillJudgeOrder ==
    exec.state # "none" =>
        LET c == exec.call
            r == exec.results
        IN  /\ c.phase = "skill" => r[c.test].baseline \in Outcomes
            /\ (c.phase = "baseline" /\ c.state = "inflight") =>
                   r[c.test] = Pending
            /\ c.phase = "judge" =>
                   /\ exec.judging
                   /\ r[c.test].baseline \in Outcomes
                   /\ r[c.test].skill \in Outcomes
            /\ \A t \in 1..exec.tests :
                   /\ r[t].judge \in Outcomes =>
                          (exec.judging /\ r[t].baseline \in Outcomes
                                        /\ r[t].skill \in Outcomes)
                   /\ r[t].skill \in Outcomes => r[t].baseline \in Outcomes
                   /\ t < c.test =>
                          /\ r[t].baseline \in Outcomes
                          /\ r[t].skill \in Outcomes
                          /\ r[t].judge # "pending"
                   /\ t > c.test => r[t] = Pending

\* C15 witness: the judge call of the second test case is in flight after
\* the first test case was judged.
C15_Witness ==
    /\ exec.state = "running"
    /\ exec.judging
    /\ exec.call.test = 2
    /\ exec.call.phase = "judge"
    /\ exec.call.state = "inflight"
    /\ exec.results[1].judge \in Outcomes
    /\ exec.results[2].baseline = "success"
    /\ exec.results[2].skill = "success"

\* C16: an invocation makes at most MaxRetries + 1 attempts, every attempt
\* that was followed by a retry failed with a network-class failure (so an
\* authentication or 4xx failure ends the invocation at once), every
\* attempt sends the full original prompt, and the result recorded is the
\* terminal attempt's tagged result.
C16_BoundedRetries ==
    exec.state # "none" =>
        LET c == exec.call
            n == Len(c.tried)
        IN  /\ n <= MaxRetries + 1
            /\ Len(c.sent) <= MaxRetries + 1
            /\ Len(c.sent) = n + (IF c.state = "inflight" THEN 1 ELSE 0)
            /\ \A i \in 1..Len(c.sent) : c.sent[i] = Prompt(c.test, c.phase)
            /\ \A i \in 1..n :
                   (i < n \/ c.state = "inflight") => c.tried[i] = "network"
            /\ c.state = "inflight" =>
                   exec.results[c.test][c.phase] = "pending"
            /\ c.state = "returned" =>
                   /\ c.tried[n] \in Outcomes
                   /\ exec.results[c.test][c.phase] = c.tried[n]
                   /\ (c.tried[n] = "network" => n = MaxRetries + 1)

\* C16 witness: an invocation returns an authentication failure from its
\* third attempt, after two network failures.
C16_Witness ==
    /\ exec.state = "running"
    /\ exec.call.state = "returned"
    /\ exec.call.tried = <<"network", "network", "auth">>
    /\ exec.results[exec.call.test][exec.call.phase] = "auth"

(***************************************************************************)
(* Skill Registry: discovery over a root directory.  Each skill directory  *)
(* is absent, malformed (its definition lacks required metadata) or valid, *)
(* and holds a set of test cases.                                          *)
(***************************************************************************)
Slugs == 1..MaxSkills
TestNames == {"t1", "t2"}
TestSets == SUBSET TestNames
SkillDirs ==
    {[kind |-> "absent", tests |-> {}]} \cup
    {[kind |-> k, tests |-> ts] : k \in {"valid", "malformed"}, ts \in TestSets}
Roots == [Slugs -> SkillDirs]
NoSkills == [skills |-> {}, warnings |-> <<>>]

\* a scan that gives up at the first malformed skill definition
RECURSIVE ScanAborting(_, _, _)
ScanAborting(root, slug, found) ==
    IF slug > MaxSkills THEN found
    ELSE IF root[slug].kind = "malformed"
         THEN [found EXCEPT !.warnings = Append(@, slug)]
         ELSE ScanAborting(root, slug + 1,
                  IF root[slug].kind = "valid"
                  THEN [found EXCEPT !.skills = @ \cup
                            {[slug |-> slug, tests |-> root[slug].tests]}]
                  ELSE found)

\* the skill directories are visited in order; a malformed one is skipped
\* with a warning and the scan goes on
RECURSIVE Scan(_, _, _)
Scan(root, slug, found) ==
    IF slug > MaxSkills THEN found
    ELSE Scan(root, slug + 1,
              CASE root[slug].kind = "valid" ->
                       [found EXCEPT !.skills = @ \cup
                            {[slug |-> slug, tests |-> root[slug].tests]}]
                [] root[slug].kind = "malformed" ->
                       [found EXCEPT !.warnings = Append(@, slug)]
                [] OTHER -> found)

discover_skills(root) == Scan(root, 1, NoSkills)

RegInit == registry = [state |-> "none"]

\* the run is given its root directory
OpenRoot ==
    /\ registry.state = "none"
    /\ \E root \in Roots :
          registry' = [state |-> "opened", root |-> root, runs |-> 0,
                       found |-> NoSkills, previous |-> NoSkills]
    /\ UNCHANGED notReg

\* discovery runs over the unchanged directory, a first and a second time
Discover ==
    /\ registry.state \in {"opened", "discovered"}
    /\ registry.runs < 2
    /\ registry' = [registry EXCEPT
           !.state = "discovered",
           !.runs = @ + 1,
           !.previous = registry.found,
           !.found = discover_skills(registry.root)]
    /\ UNCHANGED notReg

RegNext == OpenRoot \/ Discover
RegSpecInit ==
    /\ OrchInit /\ NameIdle /\ DecIdle
    /\ ArgIdle /\ VerIdle /\ ExecIdle /\ RegInit /\ DashboardIdle
RegSpec == RegSpecInit /\ [][RegNext]_vars

JudgeErrorValues == {"absent", "true", "false"}
Judgments ==
    {[present |-> FALSE, overall_better |-> "absent", score |-> "absent"]} \cup
    {[present |-> TRUE, overall_better |-> b, score |-> sc] :
        b \in {"absent", "A", "B", "Equal"}, sc \in {"absent", "0", "85"}}
SkillDatas ==
    [judge_error : JudgeErrorValues,
     judgment : Judgments,
     baseline_rating : {"absent", "good"}]

\* j.overall_better || "Equal"
OverallBetter(skillData) ==
    IF skillData.judgment.overall_better = "absent"
    THEN "Equal" ELSE skillData.judgment.overall_better

\* j.score ?? 0
Score(skillData) ==
    IF skillData.judgment.score = "absent" THEN "0"
    ELSE skillData.judgment.score

\* j.option_a_rating || currentSkill.baseline_rating || "vague"
BeforeRating(skillData) ==
    IF skillData.baseline_rating = "absent" THEN "vague"
    ELSE skillData.baseline_rating

\* a detail view that maps the verdict without looking at judge_error
renderModalContentNoJudgeError(skillData) ==
    LET better == OverallBetter(skillData) IN
    [score |-> Score(skillData),
     verdict |-> IF better = "B" THEN "BETTER"
                 ELSE IF better = "A" THEN "WORSE" ELSE "EQUAL",
     before |-> BeforeRating(skillData)]

renderModalContent(skillData) ==
    LET isError == skillData.judge_error = "true"
        better == OverallBetter(skillData)
    IN  [score |-> IF isError THEN "N/A" ELSE Score(skillData),
         verdict |-> IF isError THEN "JUDGE ERROR"
                     ELSE IF better = "B" THEN "BETTER"
                     ELSE IF better = "A" THEN "WORSE" ELSE "EQUAL",
         before |-> BeforeRating(skillData)]

\* the older dashboard: modal-better and modal-score
showDetailsOlder(skillData) ==
    [score |-> Score(skillData),
     verdict |-> OverallBetter(skillData),
     before |-> BeforeRating(skillData)]

ViewInit == modalView = [state |-> "none"]

RenderModalContent ==
    /\ modalView.state = "none"
    /\ \E skillData \in SkillDatas :
          modalView' = [state |-> "shown", skillData |-> skillData,
                        view |-> renderModalContent(skillData)]
    /\ UNCHANGED notView

ShowDetailsOlder ==
    /\ modalView.state = "none"
    /\ \E skillData \in SkillDatas :
          modalView' = [state |-> "shown_older", skillData |-> skillData,
                        view |-> showDetailsOlder(skillData)]
    /\ UNCHANGED notView

ViewNext == RenderModalContent \/ ShowDetailsOlder
ViewSpecInit ==
    /\ OrchInit /\ NameIdle /\ DecIdle
    /\ EvaluatorIdle /\ DashIdle /\ ViewInit
ViewSpec == ViewSpecInit /\ [][ViewNext]_vars

\* C26: for a run with judge_error === true, renderModalContent shows the
\* verdict JUDGE ERROR and the score N/A, whatever its judgment holds.
C26_JudgeErrorShown ==
    (modalView.state = "shown" /\ modalView.skillData.judge_error = "true")
        => /\ modalView.view.verdict = "JUDGE ERROR"
           /\ modalView.view.score = "N/A"

\* C26 witness: a run flagged judge_error whose judgment still says that
\* the skill response is better, with a score.
C26_Witness ==
    /\ modalView.state = "shown"
    /\ modalView.skillData.judge_error = "true"
    /\ modalView.skillData.judgment.overall_better = "B"
    /\ modalView.skillData.judgment.score = "85"
    /\ modalView.view.verdict = "JUDGE ERROR"

\* C27: the detail view shows the verdict EQUAL (Equal in the older
\* dashboard) only for a run whose judgment carries overall_better = Equal.
C27_EqualOnlyWhenJudgedEqual ==
    (modalView.state # "none" /\ modalView.view.verdict \in {"EQUAL", "Equal"})
        => /\ modalView.skillData.judgment.present
           /\ modalView.skillData.judgment.overall_better = "Equal"

(***************************************************************************)
(* Benchmarks dashboard: pages/benchmarks/app.js.  benchmarks.json is      *)
(* modelled by its skill runs in file order, each with the provider, model *)
(* and timestamp it has or inherits from its benchmark.  A run's tests are *)
(* modelled by their number.  Sequences are indexed from 1, so index k of  *)
(* the script is index k + 1 here; the value of test-selector and the      *)
(* variable currentTestIndex keep the script's numbering from 0.           *)
(***************************************************************************)
DashProviders == {"ollama"}
DashModels == {"m1", "m2"}
DashSkills == {"s1", "s2"}
Improvements == {"yes", "neutral", "absent"}
\* the tests of a run are those of its skill: s1 has two, s2 has none
TestCounts == [s1 |-> 2, s2 |-> 0]
Timestamps == 1..MaxStamp
SkillRuns ==
    {r \in [copy : {"json"},
            skill_name : DashSkills,
            provider : DashProviders,
            model : DashModels,
            timestamp : Timestamps,
            improvement : Improvements,
            tests : {TestCounts[sk] : sk \in DashSkills}] :
        r.tests = TestCounts[r.skill_name]}
\* the data sets are taken up to the renaming of models: the first run has
\* the first model
DataSets ==
    {data \in UNION {[1..n -> SkillRuns] : n \in 1..MaxDataRuns} :
        data[1].model = "m1"}
Null == [copy |-> "null"]
NoFilters == [p |-> "", m |-> "", s |-> "", i |-> ""]

\* { ...s, provider: ..., model: ..., timestamp: ... }: a new object per run
Flatten(data, maker) ==
    [k \in 1..Len(data) |-> [data[k] EXCEPT !.copy = maker]]

\* sort((a, b) => new Date(b.timestamp) - new Date(a.timestamp)): newest
\* first, runs of one timestamp in their former order
RECURSIVE SortFrom(_, _)
SortFrom(runs, t) ==
    IF t = 0 THEN <<>>
    ELSE SelectSeq(runs, LAMBDA r : r.timestamp = t) \o SortFrom(runs, t - 1)
SortByDateDesc(runs) == SortFrom(runs, MaxStamp)

DedupKey(r) == <<r.skill_name, r.provider, r.model>>
ProviderMatches(r, f) == f.p = "" \/ r.provider = f.p
ModelMatches(r, f) == f.m = "" \/ r.model = f.m
\* r.improvement.toLowerCase() of a run without the field
ImprovementThrows(r, f) == f.i # "" /\ r.improvement = "absent"
ImprovementMatches(r, f) == f.i = "" \/ r.improvement = f.i

\* the forEach of the branch without a skill filter
RECURSIVE Deduplicate(_, _, _, _, _)
Deduplicate(allRuns, k, seen, visibleRuns, f) ==
    IF k > Len(allRuns) THEN [threw |-> FALSE, flatSkills |-> visibleRuns]
    ELSE LET r == allRuns[k] IN
         IF DedupKey(r) \in seen \/ ~ProviderMatches(r, f)
                                 \/ ~ModelMatches(r, f)
         THEN Deduplicate(allRuns, k + 1, seen, visibleRuns, f)
         ELSE IF ImprovementThrows(r, f)
         THEN [threw |-> TRUE, flatSkills |-> <<>>]
         ELSE IF ImprovementMatches(r, f)
         THEN Deduplicate(allRuns, k + 1, seen \cup {DedupKey(r)},
                          Append(visibleRuns, r), f)
         ELSE Deduplicate(allRuns, k + 1, seen, visibleRuns, f)

\* the filter of the branch with a skill filter
AllHistoricalRuns(allRuns, f) ==
    LET reached(r) == /\ r.skill_name = f.s
                      /\ ProviderMatches(r, f)
                      /\ ModelMatches(r, f)
    IN  IF \E k \in 1..Len(allRuns) :
               reached(allRuns[k]) /\ ImprovementThrows(allRuns[k], f)
        THEN [threw |-> TRUE, flatSkills |-> <<>>]
        ELSE [threw |-> FALSE,
              flatSkills |-> SelectSeq(allRuns,
                  LAMBDA r : reached(r) /\ ImprovementMatches(r, f))]

\* renderTable: the rows are flatSkills; a TypeError leaves flatSkills and
\* the table body empty
renderTable(data, f) ==
    LET allRuns == SortByDateDesc(Flatten(data, "table")) IN
    IF f.s # "" THEN AllHistoricalRuns(allRuns, f)
    ELSE Deduplicate(allRuns, 1, {}, <<>>, f)

\* the query string: a parameter p, m, s, i or v that is absent is "", an
\* absent r is NoRunKey, an absent t is Absent
Absent == "(absent)"
NoRunKey == [provider |-> "", model |-> "", timestamp |-> 0]
NoUrl == [p |-> "", m |-> "", s |-> "", i |-> "", v |-> "", r |-> NoRunKey,
          t |-> Absent]
\* `${provider}:${model}:${timestamp}`
RunKey(r) ==
    [provider |-> r.provider, model |-> r.model, timestamp |-> r.timestamp]
RunKeys == [provider : DashProviders, model : DashModels,
            timestamp : Timestamps]

Decimal == <<"0", "1", "2", "3", "4", "5", "6", "7">>
String(k) == Decimal[k + 1]
NaN == 0 - 1
parseInt(str) ==
    IF \E k \in 1..Len(Decimal) : Decimal[k] = str
    THEN (CHOOSE k \in 1..Len(Decimal) : Decimal[k] = str) - 1
    ELSE NaN

\* assigning to the value of a select: a value that is no option leaves
\* nothing selected and the value ""
SetSelect(options, val) == IF val \in options THEN val ELSE ""

\* renderModalContent: an empty tests array is replaced by one test
TestsOf(r) == IF r.tests = 0 THEN 1 ELSE r.tests
TestOptions(r) == {String(k) : k \in 0..(TestsOf(r) - 1)}

\* the options populateFilters and index.html give the four filters
FilterOptions(data) ==
    [p |-> {""} \cup {data[k].provider : k \in 1..Len(data)},
     m |-> {""} \cup {data[k].model : k \in 1..Len(data)},
     s |-> {""} \cup {data[k].skill_name : k \in 1..Len(data)},
     i |-> {"", "yes", "no", "neutral"}]

\* the values a user of the model selects: every option but the improvement
\* "no", which matches no run of SkillRuns
FilterChoices(data) ==
    [FilterOptions(data) EXCEPT !.i = @ \ {"no"}]

\* the state of the page as one record, so that a handler is the
\* composition of the functions it calls
Fresh(data) ==
    [allData |-> data, flatSkills |-> <<>>, currentSkill |-> Null,
     currentSkillRuns |-> <<>>, currentTestIndex |-> 0,
     filterValue |-> NoFilters, modelSelector |-> 0, testSelector |-> "",
     modalShown |-> FALSE, location |-> NoUrl, threw |-> FALSE]

Current ==
    [allData |-> allData, flatSkills |-> flatSkills,
     currentSkill |-> currentSkill, currentSkillRuns |-> currentSkillRuns,
     currentTestIndex |-> currentTestIndex, filterValue |-> filterValue,
     modelSelector |-> modelSelector, testSelector |-> testSelector,
     modalShown |-> modalShown, location |-> location, threw |-> threw]

Becomes(d) ==
    /\ allData' = d.allData
    /\ flatSkills' = d.flatSkills
    /\ currentSkill' = d.currentSkill
    /\ currentSkillRuns' = d.currentSkillRuns
    /\ currentTestIndex' = d.currentTestIndex
    /\ filterValue' = d.filterValue
    /\ modelSelector' = d.modelSelector
    /\ testSelector' = d.testSelector
    /\ modalShown' = d.modalShown
    /\ location' = d.location
    /\ threw' = d.threw

syncStateToUrl(d) ==
    [d EXCEPT !.location =
        [p |-> d.filterValue.p, m |-> d.filterValue.m,
         s |-> d.filterValue.s, i |-> d.filterValue.i,
         v |-> IF d.currentSkill = Null THEN ""
               ELSE d.currentSkill.skill_name,
         r |-> IF d.currentSkill = Null THEN NoRunKey
               ELSE RunKey(d.currentSkill),
         t |-> IF d.currentSkill # Null /\ d.testSelector # "0"
               THEN d.testSelector ELSE Absent]]

\* populateTestSelector of a non-empty tests array
populateTestSelector(d) ==
    [d EXCEPT !.currentTestIndex = 0, !.testSelector = "0"]

\* renderModalContent, lines 534 and 569-576
renderModalTests(d, skillData) ==
    populateTestSelector([d EXCEPT !.currentSkill = skillData])

\* the table calls renderTable with the filters of the page
renderTableOf(d) ==
    LET t == renderTable(d.allData, d.filterValue) IN
    [d EXCEPT !.flatSkills = t.flatSkills, !.threw = t.threw]

\* findIndex, counted from 1; 0 when no element is found
FirstIndex(found) ==
    IF found = {} THEN 0
    ELSE CHOOSE k \in found : \A j \in found : k <= j

\* a search for the run of the URL that compares provider and model only
FindRunByModel(runs, runKey) ==
    FirstIndex({k \in 1..Len(runs) : /\ runs[k].provider = runKey.provider
                                      /\ runs[k].model = runKey.model})

\* the loop over selector.options of loadStateFromUrl
FindRun(runs, runKey) ==
    FirstIndex({k \in 1..Len(runs) : RunKey(runs[k]) = runKey})

showDetails(d, index) ==
    IF index \notin 1..Len(d.flatSkills) THEN d
    ELSE
    LET originSkill == d.flatSkills[index]
        allRuns == SelectSeq(Flatten(d.allData, "modal"),
                       LAMBDA sr : sr.skill_name = originSkill.skill_name)
        runs == SortByDateDesc(allRuns)
        \* opt.selected = true for the option whose run === originSkill;
        \* without one the select shows its first option
        same == FirstIndex({k \in 1..Len(runs) : runs[k] = originSkill})
        shown == [d EXCEPT
                     !.currentSkillRuns = runs,
                     !.modelSelector = IF same = 0 THEN 1 ELSE same,
                     !.modalShown = TRUE]
    IN  syncStateToUrl(renderModalTests(shown, originSkill))

loadStateFromUrl(d) ==
    LET params == d.location
        options == FilterOptions(d.allData)
        filtered == [d EXCEPT !.filterValue =
            [id \in {"p", "m", "s", "i"} |->
                IF params[id] # "" THEN SetSelect(options[id], params[id])
                ELSE d.filterValue[id]]]
        table == renderTableOf(filtered)
        matchIdx == FirstIndex({k \in 1..Len(table.flatSkills) :
                                   table.flatSkills[k].skill_name = params.v})
        opened == showDetails(table, matchIdx)
        i == FindRun(opened.currentSkillRuns, params.r)
        chosen == IF params.r # NoRunKey /\ i # 0
               THEN [renderModalTests(opened, opened.currentSkillRuns[i])
                        EXCEPT !.modelSelector = i]
               ELSE opened
        test == IF params.t \notin {Absent, ""}
                THEN [chosen EXCEPT
                         !.testSelector =
                             SetSelect(TestOptions(chosen.currentSkill),
                                       params.t),
                         !.currentTestIndex = parseInt(params.t)]
                ELSE chosen
    IN  IF table.threw \/ params.v = "" \/ matchIdx = 0 THEN table ELSE test

loadDashboard(data, url) ==
    loadStateFromUrl(renderTableOf([Fresh(data) EXCEPT !.location = url]))

\* the URLs the page is opened with: any requested detail view, with the
\* key of a run of the data or none, and a test index or none
OpenedUrls(data) ==
    {NoUrl} \cup
    {[NoUrl EXCEPT !.v = v, !.r = r, !.t = t] :
        v \in DashSkills,
        r \in {RunKey(data[k]) : k \in 1..Len(data)} \cup {NoRunKey},
        t \in {Absent, "1"}}

DashInit ==
    /\ page = "unloaded"
    /\ benchmarks \in DataSets
    /\ location \in OpenedUrls(benchmarks)
    /\ allData = <<>>
    /\ flatSkills = <<>>
    /\ currentSkill = Null
    /\ currentSkillRuns = <<>>
    /\ currentTestIndex = 0
    /\ filterValue = NoFilters
    /\ modelSelector = 0
    /\ testSelector = ""
    /\ modalShown = FALSE
    /\ threw = FALSE

\* DOMContentLoaded
LoadDashboard ==
    /\ page = "unloaded"
    /\ page' = "loaded"
    /\ Becomes(loadDashboard(benchmarks, location))
    /\ UNCHANGED <<benchmarks, notDash>>

\* location.reload(): the page is loaded again from its URL
RefreshDashboard ==
    /\ page = "loaded"
    /\ Becomes(loadDashboard(benchmarks, location))
    /\ UNCHANGED <<benchmarks, page, notDash>>

\* onchange of one of the four filters
FilterTable ==
    /\ page = "loaded"
    /\ ~modalShown
    /\ \E id \in {"p", "m", "s", "i"} :
          \E val \in FilterChoices(allData)[id] \ {filterValue[id]} :
             LET table == renderTableOf(
                     [Current EXCEPT !.filterValue[id] = val])
             IN  Becomes(IF table.threw THEN table
                         ELSE syncStateToUrl(table))
    /\ UNCHANGED <<benchmarks, page, notDash>>

\* the View button of a row
ShowDetails ==
    /\ page = "loaded"
    /\ ~modalShown
    /\ \E index \in 1..Len(flatSkills) : Becomes(showDetails(Current, index))
    /\ UNCHANGED <<benchmarks, page, notDash>>

\* onchange of modal-model-selector
SelectRun ==
    /\ modalShown
    /\ \E k \in (1..Len(currentSkillRuns)) \ {modelSelector} :
          Becomes(syncStateToUrl(renderModalTests(
              [Current EXCEPT !.modelSelector = k], currentSkillRuns[k])))
    /\ UNCHANGED <<benchmarks, page, notDash>>

\* onchange of test-selector
SelectTest ==
    /\ modalShown
    /\ \E val \in TestOptions(currentSkill) \ {testSelector} :
          Becomes(syncStateToUrl(
              [Current EXCEPT !.testSelector = val,
                              !.currentTestIndex = parseInt(val)]))
    /\ UNCHANGED <<benchmarks, page, notDash>>

\* hidden.bs.modal
HideModal ==
    /\ modalShown
    /\ Becomes(syncStateToUrl(
           [Current EXCEPT !.currentSkill = Null, !.modalShown = FALSE]))
    /\ UNCHANGED <<benchmarks, page, notDash>>

DashNext ==
    \/ LoadDashboard \/ RefreshDashboard \/ FilterTable \/ ShowDetails
    \/ SelectRun \/ SelectTest \/ HideModal
DashSpecInit ==
    /\ OrchInit /\ NameIdle /\ DecIdle
    /\ EvaluatorIdle /\ DashInit /\ ViewIdle
DashSpec == DashSpecInit /\ [][DashNext]_vars

\* the URL encodes the displayed state
InSync ==
    /\ location.p = filterValue.p
    /\ location.m = filterValue.m
    /\ location.s = filterValue.s
    /\ location.i = filterValue.i
    /\ ~modalShown =>
           (location.v = "" /\ location.r = NoRunKey /\ location.t = Absent)
    /\ modalShown =>
           /\ currentSkill # Null
           /\ location.v = currentSkill.skill_name
           /\ location.r = RunKey(currentSkill)
           /\ location.t = (IF testSelector = "0" THEN Absent
                            ELSE testSelector)

\* C21: without a skill filter the table has at most one row per
\* (skill_name, provider, model), and no run of the data with a row's key
\* is more recent than the row, whatever the other filters are.
C21_LatestRunPerKey ==
    (page = "loaded" /\ filterValue.s = "") =>
        /\ \A j, k \in 1..Len(flatSkills) :
               DedupKey(flatSkills[j]) = DedupKey(flatSkills[k]) => j = k
        /\ \A k \in 1..Len(flatSkills) : \A j \in 1..Len(allData) :
               DedupKey(allData[j]) = DedupKey(flatSkills[k])
                   => allData[j].timestamp <= flatSkills[k].timestamp

\* C22: while the detail modal is open, the option selected in
\* modal-model-selector is the run shown, currentSkill.
C22_SelectorShowsCurrentSkill ==
    modalShown =>
        /\ modelSelector \in 1..Len(currentSkillRuns)
        /\ currentSkillRuns[modelSelector].skill_name = currentSkill.skill_name
        /\ RunKey(currentSkillRuns[modelSelector]) = RunKey(currentSkill)

\* C23: whenever the loaded page is idle its URL encodes the displayed
\* state: the filters, and v, r and t exactly when the modal is open.
C23_UrlEncodesState == page = "loaded" => InSync

\* C24: loading the page again from a URL that encodes the displayed state
\* applies the same filters and shows the same run and the same test.
C24_UrlRoundTrip ==
    [][(InSync /\ RefreshDashboard) =>
          /\ filterValue' = filterValue
          /\ modalShown' = modalShown
          /\ modalShown =>
                 /\ currentSkill'.skill_name = currentSkill.skill_name
                 /\ RunKey(currentSkill') = RunKey(currentSkill)
                 /\ currentTestIndex' = currentTestIndex
                 /\ testSelector' = testSelector]_vars

\* C24 witness: a page loaded from its URL shows, under a model and an
\* improvement filter, the second test of a run that is not the row's run.
C24_Witness ==
    /\ page = "loaded"
    /\ modalShown
    /\ filterValue.m = "m1"
    /\ filterValue.i = "yes"
    /\ currentSkill.copy = "modal"
    /\ modelSelector = 2
    /\ currentTestIndex = 1
    /\ testSelector = "1"
    /\ location.t = Absent

\* C25: while the detail modal is open, currentTestIndex is an index of
\* the tests of currentSkill and test-selector shows that test.
C25_TestIndexValid ==
    modalShown =>
        /\ currentTestIndex \in 0..(TestsOf(currentSkill) - 1)
        /\ testSelector = String(currentTestIndex)

\* C28: with a skill filter the table shows every run of that skill that
\* matches the other filters (a run without an improvement counting as
\* neutral), each once, from newest to oldest.
C28_AllRunsOfSkillNewestFirst ==
    (page = "loaded" /\ filterValue.s # "") =>
        LET f == filterValue
            imp(r) == IF r.improvement = "absent" THEN "neutral"
                      ELSE r.improvement
            expected == {k \in 1..Len(allData) :
                            /\ allData[k].skill_name = f.s
                            /\ ProviderMatches(allData[k], f)
                            /\ ModelMatches(allData[k], f)
                            /\ (f.i = "" \/ imp(allData[k]) = f.i)}
        IN  /\ Len(flatSkills) = Cardinality(expected)
            /\ \A k \in expected : \E j \in 1..Len(flatSkills) :
                   flatSkills[j] = [allData[k] EXCEPT !.copy = "table"]
            /\ \A j \in 1..(Len(flatSkills) - 1) :
                   flatSkills[j].timestamp >= flatSkills[j + 1].timestamp

\* C29: renderTable never fails, whatever improvement filter is selected
\* and whatever runs lack an improvement, and the filters of the URL are
\* those of the page.
C29_ImprovementFilterNeverFails ==
    page = "loaded" =>
        /\ ~threw
        /\ location.i = filterValue.i

====
